---------------------------- MODULE Spec2Model ----------------------------
(***************************************************************************)
(* Model of mvp_simple_wallet_tracker_backend.py: the request handler      *)
(* get_transactions, the upstream gateway _etherscan, the two item         *)
(* normalizers and the merge / sort / truncate / count pipeline.           *)
(*                                                                         *)
(* Python strings that the code inspects (address, message, result text,   *)
(* timeStamp) are sequences of one-character strings, so that lower(),     *)
(* startswith(), "in", the regular expression and int() are computed.      *)
(***************************************************************************)
EXTENDS Integers, Sequences, FiniteSets

VARIABLES
    pc,          \* position of the handler coroutine
    address,     \* query parameter address
    limit,       \* query parameter limit
    calls,       \* upstream GETs issued so far (their query parameters)
    outcomes,    \* completed _etherscan calls: the reply and what the call did
    eth_items,   \* get_transactions: eth_items
    erc20_items, \* get_transactions: erc20_items
    combined,    \* get_transactions: combined, after the sort
    response,    \* what the caller receives
    chain        \* the explorer's complete history of the address, per category

vars == <<pc, address, limit, calls, outcomes, eth_items, erc20_items,
          combined, response, chain>>

-----------------------------------------------------------------------------
(* Bounds of the model *)

\* longest result list an arbitrary upstream reply carries
MaxLen == 3
\* longest per-category history of the explorer's ledger
MaxHist == 3

(* Program constants *)

\* Query(25, ge=1, le=200)
MinLimit == 1
MaxLimit == 200
\* ADDR_RE: {40}
HexLen == 40
-----------------------------------------------------------------------------
(* Python str helpers *)

Rep(c, n) == [i \in 1..n |-> c]

UpperCase == <<"A","B","C","D","E","F","G","H","I","J","K","L","M",
               "N","O","P","Q","R","S","T","U","V","W","X","Y","Z">>
LowerCase == <<"a","b","c","d","e","f","g","h","i","j","k","l","m",
               "n","o","p","q","r","s","t","u","v","w","x","y","z">>

\* str.lower(), one character
LowerChar(c) ==
    IF \E i \in 1..26 : UpperCase[i] = c
    THEN LowerCase[CHOOSE i \in 1..26 : UpperCase[i] = c]
    ELSE c

\* str.lower()
Lower(s) == [i \in 1..Len(s) |-> LowerChar(s[i])]

\* str.startswith(p)
StartsWith(s, p) == Len(s) >= Len(p) /\ SubSeq(s, 1, Len(p)) = p

\* p in s
Contains(s, p) ==
    \E i \in 1..(Len(s) + 1) :
        i + Len(p) - 1 <= Len(s) /\ SubSeq(s, i, i + Len(p) - 1) = p

\* l[::-1]
Reverse(l) == [i \in 1..Len(l) |-> l[Len(l) + 1 - i]]

Digits == <<"0","1","2","3","4","5","6","7","8","9">>

DigitVal(c) == (CHOOSE i \in 1..10 : Digits[i] = c) - 1

\* int(s) for a string of decimal digits
RECURSIVE ParseInt(_)
ParseInt(s) ==
    IF Len(s) = 0 THEN 0
    ELSE 10 * ParseInt(SubSeq(s, 1, Len(s) - 1)) + DigitVal(s[Len(s)])

-----------------------------------------------------------------------------
(* Configuration and address validation *)

ETHERSCAN_API_KEY ==
    <<"W","K","V","U","I","6","D","N","J","Y","C","W","F","5","Y","G","T",
      "8","Q","B","A","1","Y","5","Q","U","2","1","5","2","8","P","Q","E">>

PastePrefix == <<"P","A","S","T","E","_">>

\* not ETHERSCAN_API_KEY or ETHERSCAN_API_KEY.startswith("PASTE_")
KeyMissing ==
    Len(ETHERSCAN_API_KEY) = 0 \/ StartsWith(ETHERSCAN_API_KEY, PastePrefix)

HexChars == {"0","1","2","3","4","5","6","7","8","9",
             "a","b","c","d","e","f","A","B","C","D","E","F"}

\* ADDR_RE = ^0x[0-9a-fA-F]{40}$ used with match(): "^" anchors at the start;
\* "$" without re.MULTILINE matches at the end of the string and also just
\* before a newline that is the last character of the string.
ADDR_RE_match(s) ==
    \E stop \in {Len(s)} \cup {n \in {Len(s) - 1} : n >= 0 /\ s[Len(s)] = "\n"} :
        /\ stop = 2 + HexLen
        /\ s[1] = "0"
        /\ s[2] = "x"
        /\ \A i \in 3..stop : s[i] \in HexChars

_is_valid_address(addr) == ADDR_RE_match(addr)

-----------------------------------------------------------------------------
(* Upstream JSON bodies *)

\* a str-valued key of the JSON body, present or not
Present(s) == [present |-> TRUE, s |-> s]
Absent == [present |-> FALSE, s |-> <<>>]

\* the "result" key: a list of records, a free text, or not there
ResultList(l) == [kind |-> "list", list |-> l, s |-> <<>>]
ResultStr(s) == [kind |-> "str", list |-> <<>>, s |-> s]
ResultAbsent == [kind |-> "absent", list |-> <<>>, s |-> <<>>]

Json(status, message, result) ==
    [status |-> status, message |-> message, result |-> result]

NoData == Json(Absent, Absent, ResultAbsent)

\* exceptions: fastapi.HTTPException, httpx.* and the interpreter's own
HTTPException(code, detail) ==
    [kind |-> "HTTPException", status_code |-> code, detail |-> detail]
OtherException(kind) == [kind |-> kind, status_code |-> 0, detail |-> <<>>]
NoExc == [kind |-> "none", status_code |-> 0, detail |-> <<>>]

Returned(data) == [ok |-> TRUE, data |-> data, exc |-> NoExc]
Raised(exc) == [ok |-> FALSE, data |-> NoData, exc |-> exc]

S_NOTOK == <<"N","O","T","O","K">>
S_no_transactions ==
    <<"n","o"," ","t","r","a","n","s","a","c","t","i","o","n","s">>
S_rate_limit == <<"r","a","t","e"," ","l","i","m","i","t">>
S_None == <<"N","o","n","e">>
S_Etherscan_NOTOK ==
    <<"E","t","h","e","r","s","c","a","n"," ","N","O","T","O","K">>
S_Etherscan_colon == <<"E","t","h","e","r","s","c","a","n",":"," ">>
S_Etherscan_error ==
    <<"E","t","h","e","r","s","c","a","n"," ","e","r","r","o","r",":"," ">>
S_key_detail ==
    <<"S","e","r","v","e","r"," ","i","s"," ","n","o","t"," ","c","o","n",
      "f","i","g","u","r","e","d"," ","w","i","t","h"," ","a","n"," ","E",
      "t","h","e","r","s","c","a","n"," ","A","P","I"," ","k","e","y",".">>
\* the message of the 400, its ellipsis written in ASCII
S_bad_address ==
    <<"I","n","v","a","l","i","d"," ","a","d","d","r","e","s","s","."," ",
      "E","x","p","e","c","t","e","d"," ","a"," ","0","x",".",".","."," ",
      "E","V","M"," ","a","d","d","r","e","s","s",".">>

\* str(data.get("status"))
StatusStr(data) == IF data.status.present THEN data.status.s ELSE S_None

\* str(data.get("message", ""))
MessageStr(data) == IF data.message.present THEN data.message.s ELSE <<>>

\* str(list): the repr of a list, which never holds the words the code
\* looks for; only its brackets are kept
ListRepr(l) == IF Len(l) = 0 THEN <<"[","]">> ELSE <<"[","{","}","]">>

\* str(data.get("result") or "Etherscan NOTOK"): None, "" and [] are falsy
DetailStr(data) ==
    CASE data.result.kind = "absent" -> S_Etherscan_NOTOK
      [] data.result.kind = "str" ->
            IF Len(data.result.s) = 0 THEN S_Etherscan_NOTOK ELSE data.result.s
      [] data.result.kind = "list" ->
            IF Len(data.result.list) = 0 THEN S_Etherscan_NOTOK
            ELSE ListRepr(data.result.list)

\* faulty variant: the test without lower()
HasRateLimitCaseSensitive(detail) == Contains(detail, S_rate_limit)

\* "rate limit" in detail.lower()
HasRateLimit(detail) == Contains(Lower(detail), S_rate_limit)

\* faulty variant: the test without lower()
IsNoTransactionsCaseSensitive(message) == StartsWith(message, S_no_transactions)

\* message.lower().startswith("no transactions")
IsNoTransactions(message) == StartsWith(Lower(message), S_no_transactions)

\* _etherscan, from the parsed JSON body on
EtherscanBody(data) ==
    LET status == StatusStr(data)
        message == MessageStr(data)
    IN  IF status = <<"0">> /\ message = S_NOTOK
        THEN LET detail == DetailStr(data)
             IN  IF HasRateLimit(detail)
                 THEN Raised(HTTPException(429, S_Etherscan_colon \o detail))
                 ELSE Raised(HTTPException(502, S_Etherscan_error \o detail))
        ELSE IF status = <<"0">> /\ IsNoTransactions(message)
        THEN Returned(Json(Present(<<"1">>), Absent, ResultList(<<>>)))
        ELSE Returned(data)

\* what the GET did: a 2xx answer with a JSON body, or a transport failure
Answer(data) == [transport |-> "ok", data |-> data]
TransportFailure(kind) == [transport |-> kind, data |-> NoData]

TransportFailures ==
    {"httpx.TimeoutException", "httpx.ConnectError", "httpx.HTTPStatusError"}

\* _etherscan, from the key check to the return: client.get raises on a
\* timeout or a connection failure, raise_for_status on a non-2xx answer,
\* and nothing in the module catches either
Etherscan(reply) ==
    IF KeyMissing THEN Raised(HTTPException(500, S_key_detail))
    ELSE IF reply.transport # "ok" THEN Raised(OtherException(reply.transport))
    ELSE EtherscanBody(reply.data)

-----------------------------------------------------------------------------
(* Item normalizers and the merge *)

\* _normalize_eth_item: type and int(it["timeStamp"]); hash identifies the
\* record. The other keys (from, to, direction, amount, symbol, functionName,
\* status, link) are computed per record and read by no later step.
_normalize_eth_item(it) ==
    [type |-> "ETH", timestamp |-> ParseInt(it.timeStamp), hash |-> it.hash]

\* _normalize_erc20_item, likewise
_normalize_erc20_item(it) ==
    [type |-> "ERC20", timestamp |-> ParseInt(it.timeStamp), hash |-> it.hash]

NormalizeItem(type, it) ==
    IF type = "ETH" THEN _normalize_eth_item(it) ELSE _normalize_erc20_item(it)

Normalized(items) == [ok |-> TRUE, items |-> items, exc |-> NoExc]
NormalizeRaised(exc) == [ok |-> FALSE, items |-> <<>>, exc |-> exc]

\* [_normalize_..._item(address, it) for it in data.get("result", [])]:
\* a missing key gives [], a list is mapped, and a str is iterated character
\* by character, where it["timeStamp"] raises TypeError
NormalizeAll(type, data) ==
    CASE data.result.kind = "absent" -> Normalized(<<>>)
      [] data.result.kind = "list" ->
            Normalized([i \in 1..Len(data.result.list) |->
                            NormalizeItem(type, data.result.list[i])])
      [] data.result.kind = "str" ->
            IF Len(data.result.s) = 0 THEN Normalized(<<>>)
            ELSE NormalizeRaised(OtherException("TypeError"))

\* one step of a stable descending sort: x goes after every element whose
\* key is greater than or equal to its own
RECURSIVE InsertDesc(_, _)
InsertDesc(sorted, x) ==
    IF Len(sorted) = 0 THEN <<x>>
    ELSE IF Head(sorted).timestamp >= x.timestamp
         THEN <<Head(sorted)>> \o InsertDesc(Tail(sorted), x)
         ELSE <<x>> \o sorted

RECURSIVE SortFrom(_, _)
SortFrom(sorted, rest) ==
    IF Len(rest) = 0 THEN sorted
    ELSE SortFrom(InsertDesc(sorted, Head(rest)), Tail(rest))

\* faulty variant: an ascending sort that is then reversed, which turns the order of
\* equal keys around
SortAscendingThenReverse(l) == SortFrom(<<>>, Reverse(l))

\* combined.sort(key=lambda x: x["timestamp"], reverse=True): list.sort is
\* stable, and with reverse=True equal keys keep their original order
SortByTimestampDesc(l) == SortFrom(<<>>, l)

Min(a, b) == IF a <= b THEN a ELSE b

\* combined[:limit]
Truncate(l, n) == SubSeq(l, 1, Min(n, Len(l)))

\* sum(1 for x in latest if x["type"] == type)
RECURSIVE CountType(_, _)
CountType(l, type) ==
    IF Len(l) = 0 THEN 0
    ELSE (IF Head(l).type = type THEN 1 ELSE 0) + CountType(Tail(l), type)

\* faulty variant: the counts taken before the cut
CountsOverAll(latest, all) ==
    [ETH |-> CountType(all, "ETH"), ERC20 |-> CountType(all, "ERC20")]

\* counts = {"ETH": ..., "ERC20": ...}, taken over latest
Counts(latest, all) ==
    [ETH |-> CountType(latest, "ETH"), ERC20 |-> CountType(latest, "ERC20")]

-----------------------------------------------------------------------------
(* Handler: query parameters, responses *)

\* faulty variant: the limit shared out between the two categories
TxlistParamsHalf(addr, n) ==
    [action |-> "txlist", address |-> addr, page |-> 1, offset |-> n \div 2,
     sort |-> "desc"]

\* the query of the first _etherscan call (startblock and endblock, two
\* constants, are left out)
TxlistParams(addr, n) ==
    [action |-> "txlist", address |-> addr, page |-> 1, offset |-> n,
     sort |-> "desc"]

\* faulty variant: the first call's action copied into the second
TokentxParamsCopied(addr, n) ==
    [action |-> "txlist", address |-> addr, page |-> 1, offset |-> n,
     sort |-> "desc"]

\* the query of the second _etherscan call
TokentxParams(addr, n) ==
    [action |-> "tokentx", address |-> addr, page |-> 1, offset |-> n,
     sort |-> "desc"]

\* faulty variant: a failed fetch caught and replaced by an empty result
AwaitOrEmpty(out) ==
    IF out.ok THEN out
    ELSE Returned(Json(Present(<<"1">>), Absent, ResultList(<<>>)))

\* the value of an await: the callee's return value, or its exception raised
\* again in the caller; get_transactions has no try
Await(out) == out

NoBody == [address |-> <<>>, returned |-> 0,
           counts |-> [ETH |-> 0, ERC20 |-> 0], items |-> <<>>]

NoResponse == [kind |-> "none", status |-> 0, exc |-> NoExc, body |-> NoBody]

\* the status the framework answers with: an HTTPException's own code, 422
\* for a query parameter outside its Query(...) bounds, 500 for any other
\* exception leaving the route
StatusOf(exc) ==
    CASE exc.kind = "HTTPException" -> exc.status_code
      [] exc.kind = "RequestValidationError" -> 422
      [] OTHER -> 500

ErrorResponse(exc) ==
    [kind |-> "error", status |-> StatusOf(exc), exc |-> exc, body |-> NoBody]

\* JSONResponse({"address", "returned", "counts", "items"})
FeedResponse(addr, latest, all) ==
    [kind |-> "feed", status |-> 200, exc |-> NoExc,
     body |-> [address |-> addr, returned |-> Len(latest),
               counts |-> Counts(latest, all), items |-> latest]]

-----------------------------------------------------------------------------
(* The inputs: requests and upstream replies *)

Valid == <<"0","x">> \o Rep("a", HexLen)

ReqAddresses ==
    { Valid,
      <<"0","x">> \o Rep("A", HexLen - 1) \o <<"9">>,
      Rep("a", HexLen),
      <<"0","x">> \o Rep("a", HexLen - 1),
      <<"0","x">> \o Rep("a", HexLen + 1),
      <<"0","x">> \o Rep("a", HexLen - 1) \o <<"g">>,
      <<"0","X">> \o Rep("a", HexLen),
      Valid \o <<"\n">>,
      <<>> }

ReqLimits == {MinLimit - 1, MinLimit, MinLimit + 1, MaxLimit, MaxLimit + 1}

\* every address with an in-range limit and with the two limits just out
\* of range, and every limit with the plain valid address
Requests ==
    (ReqAddresses \X {MinLimit + 1, MinLimit - 1, MaxLimit + 1})
    \cup ({Valid} \X ReqLimits)

TsStrings == {<<"5","0">>, <<"8","0">>, <<"1","0","0">>}

\* the record lists of at most n records; a record's hash is its place
RawLists(n) ==
    UNION { { [i \in 1..k |-> [timeStamp |-> f[i], hash |-> i]] :
                f \in [1..k -> TsStrings] } : k \in 0..n }

OneRecord == <<[timeStamp |-> <<"8","0">>, hash |-> 1]>>

\* status "1", message "OK", a list of records
OkBodies ==
    { Json(Present(<<"1">>), Present(<<"O","K">>), ResultList(l)) :
        l \in RawLists(MaxLen) }

QuirkMessages ==
    { Present(S_NOTOK),
      Present(<<"n","o","t","o","k">>),
      Present(<<"N","o"," ","t","r","a","n","s","a","c","t","i","o","n","s"," ","f","o","u","n","d">>),
      Present(<<"N","O"," ","T","R","A","N","S","A","C","T","I","O","N","S"," ","F","O","U","N","D">>),
      Present(<<"F","o","u","n","d"," ","n","o"," ","t","r","a","n","s","a","c","t","i","o","n","s">>),
      Present(<<"E","r","r","o","r">>),
      Absent }

QuirkResults ==
    { ResultStr(<<"M","a","x"," ","r","a","t","e"," ","l","i","m","i","t"," ","r","e","a","c","h","e","d">>),
      ResultStr(<<"M","A","X"," ","R","A","T","E"," ","L","I","M","I","T"," ","R","E","A","C","H","E","D">>),
      ResultStr(<<"I","n","v","a","l","i","d"," ","A","P","I"," ","K","e","y">>),
      ResultStr(<<>>),
      ResultAbsent,
      ResultList(<<>>),
      ResultList(OneRecord) }

\* status "0" with each message and result, and a body without a status
QuirkBodies ==
    { Json(Present(<<"0">>), m, r) : m \in QuirkMessages, r \in QuirkResults }
    \cup { Json(Absent, Absent, ResultAbsent),
           Json(Absent, Present(S_NOTOK), ResultList(OneRecord)) }

UpstreamReplies ==
    { Answer(d) : d \in OkBodies \cup QuirkBodies }
    \cup { TransportFailure(k) : k \in TransportFailures }

\* the explorer's ledger: a category's complete history, most recent first
RECURSIVE IsDescending(_)
IsDescending(l) ==
    Len(l) <= 1 \/
    (ParseInt(l[1].timeStamp) >= ParseInt(l[2].timeStamp) /\ IsDescending(Tail(l)))

Histories == { l \in RawLists(MaxHist) : IsDescending(l) }

\* the explorer's answer to a query: the page of the history in the order
\* asked for, or its "No transactions found" when the page is empty
LedgerReply(history, q) ==
    LET ordered == IF q.sort = "desc" THEN history ELSE Reverse(history)
        first == (q.page - 1) * q.offset + 1
        last == Min(q.page * q.offset, Len(ordered))
        page == SubSeq(ordered, first, last)
    IN  IF Len(page) = 0
        THEN Answer(Json(Present(<<"0">>),
                         Present(<<"N","o"," ","t","r","a","n","s","a","c","t","i","o","n","s"," ","f","o","u","n","d">>),
                         ResultList(<<>>)))
        ELSE Answer(Json(Present(<<"1">>), Present(<<"O","K">>), ResultList(page)))

-----------------------------------------------------------------------------
(* The request, step by step; the steps are cut at the awaits *)

Init ==
    /\ pc = "idle"
    /\ address = <<>>
    /\ limit = 0
    /\ calls = <<>>
    /\ outcomes = <<>>
    /\ eth_items = <<>>
    /\ erc20_items = <<>>
    /\ combined = <<>>
    /\ response = NoResponse
    /\ chain = [native |-> <<>>, token |-> <<>>]

InitLedger ==
    /\ pc = "idle"
    /\ address = <<>>
    /\ limit = 0
    /\ calls = <<>>
    /\ outcomes = <<>>
    /\ eth_items = <<>>
    /\ erc20_items = <<>>
    /\ combined = <<>>
    /\ response = NoResponse
    /\ chain \in [native : Histories, token : Histories]

Finish(resp) ==
    /\ response' = resp
    /\ pc' = "done"

\* GET /api/transactions: the Query(ge=1, le=200) bound on limit, enforced
\* before the route body runs, then the address check that opens the body
Request(addr, n) ==
    /\ pc = "idle"
    /\ address' = addr
    /\ limit' = n
    /\ IF n < MinLimit \/ n > MaxLimit
       THEN Finish(ErrorResponse(OtherException("RequestValidationError")))
       ELSE IF ~_is_valid_address(addr)
       THEN Finish(ErrorResponse(HTTPException(400, S_bad_address)))
       ELSE pc' = "call_txlist" /\ UNCHANGED response
    /\ UNCHANGED <<calls, outcomes, eth_items, erc20_items, combined, chain>>

\* _etherscan up to its await: the key check, then the GET
IssueGet(q, next) ==
    /\ IF KeyMissing
       THEN Finish(ErrorResponse(HTTPException(500, S_key_detail)))
            /\ UNCHANGED calls
       ELSE calls' = Append(calls, q) /\ pc' = next /\ UNCHANGED response
    /\ UNCHANGED <<address, limit, outcomes, eth_items, erc20_items, combined,
                   chain>>

CallTxlist ==
    /\ pc = "call_txlist"
    /\ IssueGet(TxlistParams(address, limit), "await_txlist")

\* the first _etherscan call completes; eth_items is built
TxlistDone(reply) ==
    /\ pc = "await_txlist"
    /\ LET gw == Etherscan(reply)
           out == Await(gw)
           norm == NormalizeAll("ETH", out.data)
       IN  /\ outcomes' = Append(outcomes,
                                 [action |-> "txlist", reply |-> reply, out |-> gw])
           /\ IF ~out.ok THEN Finish(ErrorResponse(out.exc)) /\ UNCHANGED eth_items
              ELSE IF ~norm.ok
              THEN Finish(ErrorResponse(norm.exc)) /\ UNCHANGED eth_items
              ELSE /\ eth_items' = norm.items
                   /\ pc' = "call_tokentx"
                   /\ UNCHANGED response
    /\ UNCHANGED <<address, limit, calls, erc20_items, combined, chain>>

CallTokentx ==
    /\ pc = "call_tokentx"
    /\ IssueGet(TokentxParams(address, limit), "await_tokentx")

\* the second _etherscan call completes; erc20_items is built, the lists
\* are merged, sorted, cut and counted, and the feed is returned
TokentxDone(reply) ==
    /\ pc = "await_tokentx"
    /\ LET gw == Etherscan(reply)
           out == Await(gw)
           norm == NormalizeAll("ERC20", out.data)
           sorted == SortByTimestampDesc(eth_items \o norm.items)
           latest == Truncate(sorted, limit)
       IN  /\ outcomes' = Append(outcomes,
                                 [action |-> "tokentx", reply |-> reply, out |-> gw])
           /\ IF ~out.ok
              THEN Finish(ErrorResponse(out.exc))
                   /\ UNCHANGED <<erc20_items, combined>>
              ELSE IF ~norm.ok
              THEN Finish(ErrorResponse(norm.exc))
                   /\ UNCHANGED <<erc20_items, combined>>
              ELSE /\ erc20_items' = norm.items
                   /\ combined' = sorted
                   /\ Finish(FeedResponse(address, latest, sorted))
    /\ UNCHANGED <<address, limit, calls, eth_items, chain>>

Receive == \E r \in Requests : Request(r[1], r[2])

\* the upstream is outside the program: any reply may come
TxlistReply == \E reply \in UpstreamReplies : TxlistDone(reply)
TokentxReply == \E reply \in UpstreamReplies : TokentxDone(reply)

\* the explorer answers the query it was sent from its ledger
TxlistLedger == TxlistDone(LedgerReply(chain.native, calls[Len(calls)]))
TokentxLedger == TokentxDone(LedgerReply(chain.token, calls[Len(calls)]))

Next ==
    \/ Receive
    \/ CallTxlist
    \/ TxlistReply
    \/ CallTokentx
    \/ TokentxReply

NextLedger ==
    \/ Receive
    \/ CallTxlist
    \/ TxlistLedger
    \/ CallTokentx
    \/ TokentxLedger

Spec == Init /\ [][Next]_vars

SpecLedger == InitLedger /\ [][NextLedger]_vars

-----------------------------------------------------------------------------
(* Properties *)

Done == pc = "done"
IsFeed == response.kind = "feed"
Items == response.body.items
InRange(n) == n >= MinLimit /\ n <= MaxLimit

\* the number a timeStamp text of the model stands for, read off a table
TsValue(t) ==
    CASE t = <<"5","0">> -> 50
      [] t = <<"8","0">> -> 80
      [] t = <<"1","0","0">> -> 100

\* the records _etherscan returned for the i-th call
Fetched(i) == outcomes[i].out.data.result.list

\* the normalized native items followed by the normalized token items
Source ==
    [i \in 1..(Len(Fetched(1)) + Len(Fetched(2))) |->
        IF i <= Len(Fetched(1))
        THEN [type |-> "ETH", timestamp |-> TsValue(Fetched(1)[i].timeStamp),
              hash |-> Fetched(1)[i].hash]
        ELSE LET r == Fetched(2)[i - Len(Fetched(1))]
             IN  [type |-> "ERC20", timestamp |-> TsValue(r.timeStamp),
                  hash |-> r.hash]]

PosIn(l, x) == CHOOSE i \in 1..Len(l) : l[i] = x

\* x ranks before y: a later timestamp, or the same and an earlier place in l
RanksBefore(l, x, y) ==
    \/ x.timestamp > y.timestamp
    \/ x.timestamp = y.timestamp /\ PosIn(l, x) < PosIn(l, y)

Elems(l) == {l[i] : i \in 1..Len(l)}

\* C1: the items of a returned feed are the first limit elements of the
\* stable sort by timestamp descending of the normalized native items followed
\* by the normalized token items: every item is one of them, each item ranks
\* before the next (timestamps never increase, equal timestamps keep their
\* original order), and every element left out ranks after every item kept.
C1_FeedIsStableSortedPrefix ==
    IsFeed =>
        /\ eth_items \o erc20_items = Source
        /\ Len(Items) = Min(limit, Len(Source))
        /\ \A i \in 1..Len(Items) : Items[i] \in Elems(Source)
        /\ \A i, j \in 1..Len(Items) :
              i < j => RanksBefore(Source, Items[i], Items[j])
        /\ \A x \in Elems(Items), e \in Elems(Source) \ Elems(Items) :
              RanksBefore(Source, x, e)

\* a feed cut to 2 of 3 items, a native and a token item of equal timestamp
\* kept in that order, the native list not in descending order upstream
C1_Witness ==
    /\ IsFeed
    /\ limit = 2
    /\ Len(Source) = 3
    /\ Len(Items) = 2
    /\ Items[1].type = "ETH"
    /\ Items[2].type = "ERC20"
    /\ Items[1].timestamp = Items[2].timestamp
    /\ Len(eth_items) = 2
    /\ eth_items[1].timestamp < eth_items[2].timestamp

\* C2: in a returned feed counts.ETH and counts.ERC20 are the numbers of
\* native and token items of the items list, returned is the length of items
\* and their sum, and returned is at most the limit asked for.
C2_CountsOverTruncated ==
    IsFeed =>
        LET body == response.body
        IN  /\ body.counts.ETH =
                  Cardinality({i \in 1..Len(Items) : Items[i].type = "ETH"})
            /\ body.counts.ERC20 =
                  Cardinality({i \in 1..Len(Items) : Items[i].type = "ERC20"})
            /\ body.returned = Len(Items)
            /\ body.returned = body.counts.ETH + body.counts.ERC20
            /\ body.returned <= limit

\* a feed that was cut, with both categories in it and a native item cut off
C2_Witness ==
    /\ IsFeed
    /\ Len(combined) > Len(Items)
    /\ response.body.counts.ETH >= 1
    /\ response.body.counts.ERC20 >= 1
    /\ response.body.counts.ETH < Len(eth_items)

\* c as it is, or as its capital letter
CaseVariants(c) == {c} \cup {UpperCase[k] : k \in {j \in 1..26 : LowerCase[j] = c}}

\* p (written in lower case) stands at place i of s in some letter case
MatchesAt(s, i, p) ==
    /\ i + Len(p) - 1 <= Len(s)
    /\ \A k \in 1..Len(p) : s[i + k - 1] \in CaseVariants(p[k])

ContainsAnyCase(s, p) == \E i \in 1..Len(s) : MatchesAt(s, i, p)

IsSuffix(t, s) == Len(t) <= Len(s) /\ SubSeq(s, Len(s) - Len(t) + 1, Len(s)) = t

\* the upstream body of a completed call has status "0" and message "NOTOK"
IsNotOk(o) ==
    /\ o.reply.transport = "ok"
    /\ o.reply.data.status = Present(<<"0">>)
    /\ o.reply.data.message = Present(S_NOTOK)

\* ... status "0" and a message that starts with "no transactions"
IsNoTx(o) ==
    /\ o.reply.transport = "ok"
    /\ o.reply.data.status = Present(<<"0">>)
    /\ o.reply.data.message.present
    /\ MatchesAt(o.reply.data.message.s, 1, S_no_transactions)

\* the free text of the result key ("" when there is none)
ResultText(o) == o.reply.data.result.s

\* C3: a call whose upstream body has status "0" and message exactly "NOTOK"
\* raises and returns nothing: an HTTPException with 429 when the result
\* text holds "rate limit" in any letter case, with 502 in every other case
\* (an empty or missing text too); the detail ends with the result text, and
\* the request ends with that exception.
C3_NotOkRaises ==
    \A i \in 1..Len(outcomes) :
        IsNotOk(outcomes[i]) =>
            LET o == outcomes[i]
            IN  /\ ~o.out.ok
                /\ o.out.exc.kind = "HTTPException"
                /\ o.out.exc.status_code =
                      (IF ContainsAnyCase(ResultText(o), S_rate_limit)
                       THEN 429 ELSE 502)
                /\ IsSuffix(ResultText(o), o.out.exc.detail)
                /\ Done
                /\ response.kind = "error"
                /\ response.status = o.out.exc.status_code

\* the token call got NOTOK with the rate-limit text in capitals: 429
C3_Witness ==
    /\ Len(outcomes) = 2
    /\ IsNotOk(outcomes[2])
    /\ ContainsAnyCase(ResultText(outcomes[2]), S_rate_limit)
    /\ ~Contains(ResultText(outcomes[2]), S_rate_limit)
    /\ response.status = 429

\* C4: a call whose upstream body has status "0" and a message starting with
\* "no transactions" in any letter case returns a success payload with an
\* empty result list, and when both calls of a request end this way the
\* answer is a 200 feed with returned 0, counts 0 and 0 and no items.
C4_NoTransactionsIsEmptySuccess ==
    /\ \A i \in 1..Len(outcomes) :
          IsNoTx(outcomes[i]) =>
              /\ outcomes[i].out.ok
              /\ outcomes[i].out.data.status = Present(<<"1">>)
              /\ outcomes[i].out.data.result = ResultList(<<>>)
    /\ (Len(outcomes) = 2 /\ IsNoTx(outcomes[1]) /\ IsNoTx(outcomes[2])) =>
          /\ Done
          /\ IsFeed
          /\ response.status = 200
          /\ response.body.returned = 0
          /\ response.body.counts = [ETH |-> 0, ERC20 |-> 0]
          /\ response.body.items = <<>>

\* both calls answered "no transactions", one of them in capitals, with a
\* result that was not an empty list upstream
C4_Witness ==
    /\ Done
    /\ Len(outcomes) = 2
    /\ IsNoTx(outcomes[1])
    /\ IsNoTx(outcomes[2])
    /\ outcomes[1].reply.data.message.s[2] = "O"
    /\ outcomes[2].reply.data.message.s[2] = "o"
    /\ outcomes[2].reply.data.result.kind = "str"
    /\ IsFeed

\* C5: a call whose upstream body has a status other than "1" and is neither
\* the NOTOK case nor the "no transactions" case raises an HTTPException
\* with 502 and hands no payload to the handler.
C5_OtherStatusRaises ==
    \A i \in 1..Len(outcomes) :
        LET o == outcomes[i]
        IN  (/\ o.reply.transport = "ok"
             /\ o.reply.data.status # Present(<<"1">>)
             /\ ~IsNotOk(o)
             /\ ~IsNoTx(o)) =>
                /\ ~o.out.ok
                /\ o.out.exc.kind = "HTTPException"
                /\ o.out.exc.status_code = 502

\* C6: a request one of whose GETs failed at the network level (timeout,
\* connection failure, non-2xx answer) ends with status 502.
C6_TransportFailureIs502 ==
    \A i \in 1..Len(outcomes) :
        outcomes[i].reply.transport # "ok" =>
            /\ Done
            /\ response.kind = "error"
            /\ response.status = 502

\* exactly "0x" and 40 hexadecimal characters
ExactAddress(a) ==
    /\ Len(a) = HexLen + 2
    /\ a[1] = "0"
    /\ a[2] = "x"
    /\ \A i \in 3..(HexLen + 2) : a[i] \in HexChars

\* C7: a request whose address is not exactly "0x" and 40 hexadecimal
\* characters, or whose limit is outside 1..200, issues no upstream call at
\* any point and ends rejected with a client validation error.
C7_InvalidRequestIssuesNoCall ==
    (pc # "idle" /\ (~ExactAddress(address) \/ ~InRange(limit))) =>
        /\ calls = <<>>
        /\ Done => (response.kind = "error" /\ response.status \in {400, 422})

\* C8: a request is all or nothing: once either _etherscan call has raised,
\* the request is over, the answer is an error and no feed, and the exception
\* the caller gets is the one the call raised, status code and detail
\* unchanged; a feed is answered only when both calls returned.
C8_AllOrNothing ==
    /\ \A i \in 1..Len(outcomes) :
          ~outcomes[i].out.ok =>
              /\ Done
              /\ response.kind = "error"
              /\ response.exc = outcomes[i].out.exc
              /\ response.body.items = <<>>
    /\ IsFeed =>
          /\ Len(outcomes) = 2
          /\ outcomes[1].action = "txlist" /\ outcomes[1].out.ok
          /\ outcomes[2].action = "tokentx" /\ outcomes[2].out.ok

\* the native call returned records and the token call then raised the 429
C8_Witness ==
    /\ Done
    /\ Len(outcomes) = 2
    /\ outcomes[1].out.ok
    /\ Len(eth_items) >= 1
    /\ ~outcomes[2].out.ok
    /\ outcomes[2].out.exc.status_code = 429
    /\ response.kind = "error"

\* C9: the upstream calls of a request are sequential: at most one GET per
\* category, the txlist GET first, the tokentx GET only after the txlist
\* call has returned without raising, so a request whose txlist call raised
\* has issued exactly one GET.
C9_SequentialCalls ==
    /\ Len(calls) <= 2
    /\ Len(outcomes) <= Len(calls)
    /\ Len(calls) <= Len(outcomes) + 1
    /\ Len(calls) >= 1 => calls[1].action = "txlist"
    /\ Len(calls) = 2 =>
          /\ calls[2].action = "tokentx"
          /\ outcomes[1].action = "txlist"
          /\ outcomes[1].out.ok
    /\ (Len(outcomes) >= 1 /\ ~outcomes[1].out.ok) => (Done /\ Len(calls) = 1)
    /\ \A i \in 1..Len(outcomes) : outcomes[i].action = calls[i].action

\* the txlist call raised and the request ended with one GET issued
C9_Witness ==
    /\ Done
    /\ Len(outcomes) = 1
    /\ ~outcomes[1].out.ok
    /\ Len(calls) = 1

\* the complete history of both categories taken together
History == chain.native \o chain.token

\* how many records of the history are later than t / not earlier than t
Later(t) == Cardinality({j \in 1..Len(History) : TsValue(History[j].timeStamp) > t})
NotEarlier(t) ==
    Cardinality({j \in 1..Len(History) : TsValue(History[j].timeStamp) >= t})

\* C10: when the explorer answers each query with the first limit records of
\* the category's history, most recent first, the feed has the timestamps of
\* the first limit entries of the descending sort of the complete history of
\* both categories: as many entries, and at place i the i-th latest
\* timestamp of the whole history.
C10_FetchingLimitPerCategoryLosesNothing ==
    IsFeed =>
        /\ Len(Items) = Min(limit, Len(History))
        /\ \A i \in 1..Len(Items) :
              /\ Later(Items[i].timestamp) < i
              /\ NotEarlier(Items[i].timestamp) >= i

\* both histories are longer than the limit, and the feed holds both kinds
C10_Witness ==
    /\ IsFeed
    /\ Len(chain.native) > limit
    /\ Len(chain.token) > limit
    /\ Len(Items) = limit
    /\ \E i, j \in 1..Len(Items) : Items[i].type = "ETH" /\ Items[j].type = "ERC20"

=============================================================================
